---- MODULE Spec2Model ----
(***************************************************************************)
(* Model of the two stateful primitives of dcyfr-ai-graphql:               *)
(*   - createDataLoader (src/src/dataloaders/loader.ts): a batching,       *)
(*     caching loader driven by a queueMicrotask callback;                 *)
(*   - RateLimiter (src/src/middleware/rate-limit.ts): a keyed fixed       *)
(*     window request counter.                                             *)
(* The loader is checked under LoaderSpec, the limiter under LimiterSpec.  *)
(***************************************************************************)
EXTENDS Integers, Sequences, FiniteSets, TLC

\* ------------------------------------------------------------------ bounds
\* promises created by load() on one loader instance
MaxHandles == 2
\* runs of the dispatch callback, i.e. batchFn invocations
MaxDispatch == 2
\* clear()/clearAll() calls
MaxClears == 1
\* loadMany() calls, and the longest key array handed to one
MaxMany == 1
MaxManyLen == 2
\* how far a batchFn result array may be longer than its key list
MaxExtra == 1
\* the limiter's clock runs from 0 to MaxTime
MaxTime == 4
\* configurations tried: windowMs in 0..MaxWindow, maxRequests in 0..MaxRequests
MaxWindow == 2
MaxRequests == 2
\* check() calls followed inside one window, beyond maxRequests
MaxOver == 2

\* ------------------------------------------------------------ loader: data
\* Keys handed to load(): a string, and two distinct object keys with the
\* same JSON text (two objects {id: 1}).
Keys == {"u1", "objA", "objB"}

\* JSON.stringify(key), loader.ts:47 and :71
JSONstringify(k) ==
    CASE k = "u1"   -> "\"u1\""
      [] k = "objA" -> "{\"id\":1}"
      [] k = "objB" -> "{\"id\":1}"

CacheKeys == {JSONstringify(k) : k \in Keys}

\* JavaScript values that travel through the loader. oid tells Error objects
\* made by the loader (one per `new Error`) from those made by batchFn (0).
Val(v)       == [kind |-> "value", v |-> v, oid |-> 0]
Null         == [kind |-> "null", v |-> "", oid |-> 0]
Undefined    == [kind |-> "undefined", v |-> "", oid |-> 0]
Str(s)       == [kind |-> "string", v |-> s, oid |-> 0]
Err(m)       == [kind |-> "error", v |-> m, oid |-> 0]
NewError(m, o) == [kind |-> "error", v |-> m, oid |-> o]

\* `x instanceof Error`
IsError(x) == x.kind = "error"

\* String(x) for the values above
StringOf(x) ==
    CASE x.kind = "string"    -> x.v
      [] x.kind = "value"     -> x.v
      [] x.kind = "null"      -> "null"
      [] x.kind = "undefined" -> "undefined"
      [] x.kind = "error"     -> x.v

\* what batchFn may put at one position of its result array
ResultElems == {Val("A"), Null, Err("x")}
\* what batchFn may throw or reject with: an Error, or a bare string
Thrown == {Err("boom"), Str("timeout")}

\* Promise<V> states
Pending      == [state |-> "pending", outcome |-> Undefined]
Fulfilled(v) == [state |-> "fulfilled", outcome |-> v]
Rejected(e)  == [state |-> "rejected", outcome |-> e]

\* resolve()/reject() of a promise act once only
Settle(p, q) == IF p.state = "pending" THEN q ELSE p

SeqsUpTo(S, n) == UNION {[1..m -> S] : m \in 0..n}

\* what a result array that is longer than the key list holds beyond it
Surplus(m) == [i \in 1..m |-> Err("x")]

\* the result arrays batchFn may return for n keys: one element per key,
\* or one element short, or up to MaxExtra elements too long
ResultArrays(n) ==
    UNION {[1..m -> ResultElems] : m \in (IF n = 0 THEN 0 ELSE n - 1)..n}
    \cup {r \o Surplus(x) : r \in [1..n -> ResultElems], x \in 1..MaxExtra}

\* the ways a batchFn call on n keys can end
Completions(n) ==
    {[ok |-> TRUE, results |-> r, thrown |-> Undefined] : r \in ResultArrays(n)}
    \cup {[ok |-> FALSE, results |-> <<>>, thrown |-> t] : t \in Thrown}

NoCompletion == [ok |-> FALSE, results |-> <<>>, thrown |-> Undefined]

VARIABLES
    \* loader.ts:14-16, the closure state of one loader
    cache,      \* Map<string, Promise<V>>: cache key -> promise id, 0 = absent
    batch,      \* the pending batch: sequence of [key, h]
    scheduled,  \* the scheduled flag
    \* the runtime
    queued,     \* dispatch callbacks waiting in the microtask queue
    promises,   \* every promise load() created: [state, outcome]
    calls,      \* batchFn invocations: [keys, items, state, completion]
                \* (items is the callback's currentBatch)
    many,       \* loadMany() calls: [keys, hs]
    \* history
    born,       \* per promise: the load() call that created it
    loads,      \* the load() calls of the latest operation, in order
    epoch,      \* per cache key: clear()/clearAll() calls that covered it
    cleared,    \* per cache key: the entry removed by a clear that no load
                \* of the key has followed yet (0: none cached), else -1
    nclears,    \* clear()/clearAll() calls so far
    \* RateLimiter
    entries,    \* Map<string, RateLimitEntry>: identity -> entry
    config,     \* RateLimitConfig
    now,        \* Date.now()
    last,       \* the last limiter call and what it returned
    winCalls,   \* per identity: check() calls since its window was opened
    unswept,    \* the entries of a limiter given the same check calls at
                \* the same times and no cleanup call
    \* InMemoryDB, loader.ts:91-95 (the singleton db, loader.ts:373)
    posts,      \* Map<string, Post>: set of [id, authorId]
    comments,   \* Map<string, Comment>: set of [id, postId, authorId]
    idCounter,  \* the id counter
    lastDb,     \* the last service call, its error and the store before it
    \* the server, part_011
    instances,  \* every loader createDataLoader made: its closure state
    contexts,   \* the GraphQL contexts made so far: [ip, loaders]
    \* the @rateLimit directive example, part_007
    rateLimitStore, \* Map<string, { count, resetAt }>: key -> entry
    directive,      \* the directive's arguments: [limit, window]
    lastDir         \* the last call of a limited field and the store before

loaderVars == <<cache, batch, scheduled, queued, promises, calls, many,
                born, loads, epoch, cleared, nclears>>
limiterVars == <<entries, config, now, last, winCalls, unswept>>
storeVars == <<posts, comments, idCounter, lastDb>>
ctxVars == <<instances, contexts>>
dirVars == <<rateLimitStore, directive, lastDir>>
appVars == <<storeVars, ctxVars, dirVars>>
vars == <<loaderVars, limiterVars, appVars>>

\* ------------------------------------------------------- loader: operations
\* The closure state load() works on, as one record.
CurL == [cache |-> cache, batch |-> batch, scheduled |-> scheduled,
         queued |-> queued, promises |-> promises, born |-> born,
         loads |-> <<>>, cleared |-> cleared]

SetL(L) ==
    /\ cache' = L.cache
    /\ batch' = L.batch
    /\ scheduled' = L.scheduled
    /\ queued' = L.queued
    /\ promises' = L.promises
    /\ born' = L.born
    /\ loads' = L.loads
    /\ cleared' = L.cleared

scheduleWithoutFlag(sched, q) ==
    IF sched THEN [scheduled |-> sched, queued |-> q]
    ELSE [scheduled |-> FALSE, queued |-> q + 1]

scheduleAlways(sched, q) == [scheduled |-> TRUE, queued |-> q + 1]

\* schedule(), loader.ts:18-21: queue the dispatch callback unless one is queued
schedule(sched, q) ==
    IF sched THEN [scheduled |-> sched, queued |-> q]
    ELSE [scheduled |-> TRUE, queued |-> q + 1]

isCachedUnlessRejected(ps, cached) ==
    cached # 0 /\ ps[cached].state # "rejected"

\* `if (cached) return cached`, loader.ts:48-49: any promise found is returned
isCached(ps, cached) == cached # 0

cacheSetNothing(c, ck, h) == c

\* cache.set(cacheKey, promise), loader.ts:56
cacheSet(c, ck, h) == [c EXCEPT ![ck] = h]

\* load(key), loader.ts:46-58
LoadStep(L, key) ==
    LET ck == JSONstringify(key)
        cached == L.cache[ck]
        h == Len(L.promises) + 1
        s == schedule(L.scheduled, L.queued)
        \* the request for the same cache key that earlier load() calls of
        \* this tick left in the batch, if any (history)
        same == {i \in 1..Len(L.batch) : JSONstringify(L.batch[i].key) = ck}
        prev == IF same = {} THEN 0
                ELSE L.batch[CHOOSE i \in same : \A j \in same : j <= i].h
        rec(ret, fresh, seen) ==
            [key |-> key, h |-> ret, fresh |-> fresh, seen |-> seen,
             hit |-> cached, prev |-> prev,
             cleared |-> prev # 0 /\ L.born[prev].epoch # epoch[ck],
             after |-> L.cleared[ck]]
    IN  IF isCached(L.promises, cached)
        THEN [L EXCEPT !.loads = Append(@, rec(cached, FALSE, L.promises[cached].state)),
                       !.cleared[ck] = -1]
        ELSE [L EXCEPT !.promises = Append(@, Pending),
                       !.born = Append(@, [key |-> key, tick |-> Len(calls),
                                           epoch |-> epoch[ck],
                                           old |-> L.cleared[ck]]),
                       !.batch = Append(@, [key |-> key, h |-> h]),
                       !.scheduled = s.scheduled,
                       !.queued = s.queued,
                       !.cache = cacheSet(@, ck, h),
                       !.loads = Append(@, rec(h, TRUE, "pending")),
                       !.cleared[ck] = -1]

\* the load() calls of loadMany, left to right (keys.map, loader.ts:62-63)
RECURSIVE LoadAll(_, _)
LoadAll(L, ks) ==
    IF ks = <<>> THEN L ELSE LoadAll(LoadStep(L, Head(ks)), Tail(ks))

\* the model's bounds on what a call may add
Fits(L) ==
    /\ Len(L.promises) <= MaxHandles
    /\ Len(calls) + L.queued <= MaxDispatch

Load(key) ==
    LET L == LoadStep(CurL, key)
    IN  /\ Fits(L)
        /\ SetL(L)
        /\ UNCHANGED <<calls, many, epoch, nclears, limiterVars, appVars>>

\* loadMany(keys), loader.ts:60-68: the handles it waits for
LoadMany(ks) ==
    LET L == LoadAll(CurL, ks)
    IN  /\ Len(many) < MaxMany
        /\ Fits(L)
        /\ SetL(L)
        /\ many' = Append(many, [keys |-> ks,
                                 hs |-> [i \in 1..Len(ks) |-> L.loads[i].h]])
        /\ UNCHANGED <<calls, epoch, nclears, limiterVars, appVars>>

cacheDeleteAll(c, ck) == [k \in CacheKeys |-> 0]

cacheDeleteNothing(c, ck) == c

\* cache.delete(cacheKey), loader.ts:71
cacheDelete(c, ck) == [c EXCEPT ![ck] = 0]

\* clear(key), loader.ts:70-72
Clear(key) ==
    LET ck == JSONstringify(key)
    IN  /\ nclears < MaxClears
        /\ nclears' = nclears + 1
        /\ cache' = cacheDelete(cache, ck)
        /\ epoch' = [epoch EXCEPT ![ck] = @ + 1]
        /\ cleared' = [cleared EXCEPT ![ck] = cache[ck]]
        /\ loads' = <<>>
        /\ UNCHANGED <<batch, scheduled, queued, promises, calls, many, born,
                       limiterVars, appVars>>

\* clearAll(), loader.ts:74-76
ClearAll ==
    /\ nclears < MaxClears
    /\ nclears' = nclears + 1
    /\ cache' = [ck \in CacheKeys |-> 0]
    /\ epoch' = [ck \in CacheKeys |-> epoch[ck] + 1]
    /\ cleared' = cache
    /\ loads' = <<>>
    /\ UNCHANGED <<batch, scheduled, queued, promises, calls, many, born,
                   limiterVars, appVars>>

keepScheduled(sched) == sched

\* `scheduled = false`, loader.ts:22
resetScheduled(sched) == FALSE

keepBatch(b) == b

\* `batch = []`, loader.ts:24
resetBatch(b) == <<>>

\* The dispatch callback up to its await, loader.ts:21-28: take the batch,
\* reset it, call batchFn(keys).
DispatchStart ==
    /\ queued > 0
    /\ Len(calls) < MaxDispatch
    /\ queued' = queued - 1
    /\ scheduled' = resetScheduled(scheduled)
    /\ batch' = resetBatch(batch)
    /\ calls' = Append(calls,
                       [keys |-> [i \in 1..Len(batch) |-> batch[i].key],
                        items |-> [i \in 1..Len(batch) |-> batch[i].h],
                        state |-> "inflight",
                        completion |-> NoCompletion])
    /\ loads' = <<>>
    /\ UNCHANGED <<cache, promises, many, born, epoch, cleared, nclears,
                   limiterVars, appVars>>

settleAtStrict(results, i) ==
    IF i > Len(results)
    THEN Rejected(Err("length mismatch"))
    ELSE IF IsError(results[i]) THEN Rejected(results[i]) ELSE Fulfilled(results[i])

settleAllOrNothing(results, i) ==
    IF \E j \in 1..Len(results) : IsError(results[j])
    THEN Rejected(results[CHOOSE j \in 1..Len(results) : IsError(results[j])])
    ELSE Fulfilled(IF i <= Len(results) THEN results[i] ELSE Undefined)

\* loader.ts:30-35: settle request i from results[i]
settleAt(results, i) ==
    LET result == IF i <= Len(results) THEN results[i] ELSE Undefined
    IN  IF IsError(result) THEN Rejected(result) ELSE Fulfilled(result)

rejectReasonShared(error, h) ==
    IF IsError(error) THEN error ELSE NewError("Batch failed", h)

\* loader.ts:39: error instanceof Error ? error : new Error(String(error)),
\* evaluated once per item (h names the item the new Error is made for)
rejectReason(error, h) ==
    IF IsError(error) THEN error ELSE NewError(StringOf(error), h)

pendingBatch(d) == [i \in 1..Len(batch) |-> batch[i].h]

\* currentBatch of the callback that made call d, loader.ts:23
currentBatch(d) == calls[d].items

\* The dispatch callback after its await, loader.ts:28-41.
Complete(d, comp) ==
    LET items == currentBatch(d)
        pos(h) == CHOOSE i \in 1..Len(items) : items[i] = h
        new(h) == IF comp.ok THEN settleAt(comp.results, pos(h))
                  ELSE Rejected(rejectReason(comp.thrown, h))
    IN  /\ calls[d].state = "inflight"
        /\ calls' = [calls EXCEPT ![d].state = "done", ![d].completion = comp]
        /\ promises' = [h \in 1..Len(promises) |->
                          IF \E i \in 1..Len(items) : items[i] = h
                          THEN Settle(promises[h], new(h))
                          ELSE promises[h]]
        /\ loads' = <<>>
        /\ UNCHANGED <<cache, batch, scheduled, queued, many, born,
                       epoch, cleared, nclears, limiterVars, appVars>>

catchNothing(p) == p

\* .catch((error) => error instanceof Error ? error : new Error(String(error))),
\* loader.ts:63-65, applied to the promise load() returned
catchToValue(p) ==
    IF p.state = "rejected"
    THEN Fulfilled(IF IsError(p.outcome) THEN p.outcome
                   ELSE NewError(StringOf(p.outcome), 0))
    ELSE p

\* Promise.all, loader.ts:61: rejected once one input is, fulfilled with
\* the values in input order once all inputs are
promiseAll(ps) ==
    IF \E i \in DOMAIN ps : ps[i].state = "rejected"
    THEN [state |-> "rejected", values |-> <<>>]
    ELSE IF \A i \in DOMAIN ps : ps[i].state = "fulfilled"
         THEN [state |-> "fulfilled", values |-> [i \in DOMAIN ps |-> ps[i].outcome]]
         ELSE [state |-> "pending", values |-> <<>>]

\* the promise loadMany(keys) returned, loader.ts:60-68
loadManyPromise(m) ==
    promiseAll([i \in 1..Len(m.hs) |-> catchToValue(promises[m.hs[i]])])

\* createDataLoader(batchFn), loader.ts:14-16
LoaderStart ==
    /\ cache = [ck \in CacheKeys |-> 0]
    /\ batch = <<>>
    /\ scheduled = FALSE
    /\ queued = 0
    /\ promises = <<>>
    /\ calls = <<>>
    /\ many = <<>>
    /\ born = <<>>
    /\ loads = <<>>
    /\ epoch = [ck \in CacheKeys |-> 0]
    /\ cleared = [ck \in CacheKeys |-> -1]
    /\ nclears = 0

LoaderNext ==
    \/ \E k \in Keys : Load(k)
    \/ \E ks \in SeqsUpTo(Keys, MaxManyLen) : LoadMany(ks)
    \/ \E k \in Keys : Clear(k)
    \/ ClearAll
    \/ DispatchStart
    \/ \E d \in 1..Len(calls) : \E comp \in Completions(Len(calls[d].keys)) :
          Complete(d, comp)

\* ------------------------------------------------------------ RateLimiter
Identities == {"ip1", "ip2"}

\* entries.get(key) === undefined
NoEntry == [present |-> FALSE, count |-> 0, resetAt |-> 0]
Entry(c, r) == [present |-> TRUE, count |-> c, resetAt |-> r]

checkOffByOne(entry, t) ==
    IF ~entry.present \/ t > entry.resetAt
    THEN [entry |-> Entry(1, t + config.windowMs), allowed |-> TRUE]
    ELSE IF entry.count > config.maxRequests
         THEN [entry |-> entry, allowed |-> FALSE]
         ELSE [entry |-> Entry(entry.count + 1, entry.resetAt), allowed |-> TRUE]

checkCountsDenied(entry, t) ==
    IF ~entry.present \/ t > entry.resetAt
    THEN [entry |-> Entry(1, t + config.windowMs), allowed |-> TRUE]
    ELSE [entry |-> Entry(entry.count + 1, entry.resetAt),
          allowed |-> entry.count < config.maxRequests]

checkSliding(entry, t) ==
    IF ~entry.present \/ t > entry.resetAt
    THEN [entry |-> Entry(1, t + config.windowMs), allowed |-> TRUE]
    ELSE IF entry.count >= config.maxRequests
         THEN [entry |-> entry, allowed |-> FALSE]
         ELSE [entry |-> Entry(entry.count + 1, t + config.windowMs),
               allowed |-> TRUE]

\* RateLimiter.check, rate-limit.ts:31-46, on the entry found for the key:
\* the entry to store and the value returned
check(entry, t) ==
    IF ~entry.present \/ t > entry.resetAt
    THEN [entry |-> Entry(1, t + config.windowMs), allowed |-> TRUE]
    ELSE IF entry.count >= config.maxRequests
         THEN [entry |-> entry, allowed |-> FALSE]
         ELSE [entry |-> Entry(entry.count + 1, entry.resetAt), allowed |-> TRUE]

remainingAtBoundary(entry, t) ==
    IF ~entry.present \/ t >= entry.resetAt
    THEN config.maxRequests
    ELSE IF config.maxRequests - entry.count > 0
         THEN config.maxRequests - entry.count
         ELSE 0

\* RateLimiter.remaining, rate-limit.ts:51-56
remaining(entry, t) ==
    IF ~entry.present \/ t > entry.resetAt
    THEN config.maxRequests
    ELSE IF config.maxRequests - entry.count > 0
         THEN config.maxRequests - entry.count
         ELSE 0

\* History of one identity's window: when the window opened by the first
\* call ends, and how many check() calls were made in it.
NoWindow == [open |-> FALSE, end |-> 0, calls |-> 0]

InWindow(w, t) == w.open /\ t <= w.end

NoCall == [op |-> "none", id |-> "", allowed |-> FALSE, value |-> 0,
           ordinal |-> 0, at |-> 0, before |-> [i \in Identities |-> NoEntry],
           wbefore |-> NoWindow, ref |-> [allowed |-> FALSE, value |-> 0]]

storeEntryAll(es, id, e) == [i \in Identities |-> e]

\* this.entries.set(key, ...) and entry.count++ on the entry of that key,
\* rate-limit.ts:33-44
storeEntry(es, id, e) == [es EXCEPT ![id] = e]

\* one rateLimiter.check(id) call and its record
CheckCall(id) ==
    LET r == check(entries[id], now)
        w == winCalls[id]
        n == IF InWindow(w, now) THEN w.calls + 1 ELSE 1
    IN  /\ n <= config.maxRequests + MaxOver
        /\ entries' = storeEntry(entries, id, r.entry)
        /\ winCalls' = [winCalls EXCEPT ![id] =
                           IF InWindow(w, now) THEN [w EXCEPT !.calls = n]
                           ELSE [open |-> TRUE, end |-> now + config.windowMs,
                                 calls |-> 1]]
        /\ unswept' = storeEntry(unswept, id, check(unswept[id], now).entry)
        /\ last' = [op |-> "check", id |-> id, allowed |-> r.allowed, value |-> 0,
                    ordinal |-> n, at |-> now, before |-> entries,
                    wbefore |-> w,
                    ref |-> [allowed |-> check(unswept[id], now).allowed,
                             value |-> 0]]
        /\ UNCHANGED <<config, now>>

Check(id) == CheckCall(id) /\ UNCHANGED <<loaderVars, appVars>>

remainingEvicts(es, id, t) ==
    IF es[id].present /\ t > es[id].resetAt
    THEN [es EXCEPT ![id] = NoEntry]
    ELSE es

\* the entries map after remaining(key): the method only reads it,
\* rate-limit.ts:51-56
remainingReads(es, id, t) == es

Remaining(id) ==
    /\ entries' = remainingReads(entries, id, now)
    /\ last' = [op |-> "remaining", id |-> id, allowed |-> FALSE,
                value |-> remaining(entries[id], now), ordinal |-> 0,
                at |-> now, before |-> entries, wbefore |-> winCalls[id],
                ref |-> [allowed |-> FALSE,
                         value |-> remaining(unswept[id], now)]]
    /\ UNCHANGED <<config, now, winCalls, unswept, loaderVars, appVars>>

cleanupAtBoundary(es, t) ==
    [id \in Identities |->
        IF es[id].present /\ t >= es[id].resetAt THEN NoEntry ELSE es[id]]

\* RateLimiter.cleanup, rate-limit.ts:61-66
cleanup(es, t) ==
    [id \in Identities |->
        IF es[id].present /\ t > es[id].resetAt THEN NoEntry ELSE es[id]]

Cleanup ==
    /\ entries' = cleanup(entries, now)
    /\ last' = [op |-> "cleanup", id |-> "", allowed |-> FALSE, value |-> 0,
                ordinal |-> 0, at |-> now, before |-> entries,
                wbefore |-> NoWindow, ref |-> [allowed |-> FALSE, value |-> 0]]
    /\ UNCHANGED <<config, now, winCalls, unswept, loaderVars, appVars>>

\* Date.now() advances
Tick ==
    /\ now < MaxTime
    /\ now' = now + 1
    /\ UNCHANGED <<entries, config, last, winCalls, unswept, loaderVars, appVars>>

\* new RateLimiter(config), rate-limit.ts:20-25
LimiterStart(cfg) ==
    /\ entries = [id \in Identities |-> NoEntry]
    /\ config = cfg
    /\ now = 0
    /\ last = NoCall
    /\ winCalls = [id \in Identities |-> NoWindow]
    /\ unswept = [id \in Identities |-> NoEntry]

\* ------------------------------------------------------------- InMemoryDB
\* An id n stands for the string `id_n`; 0 stands for the empty string.
MaxIds == 8

AuthorIds == {1, 2}

\* the store as one record
Db == [posts |-> posts, comments |-> comments, idCounter |-> idCounter]

SetDb(d) ==
    /\ posts' = d.posts
    /\ comments' = d.comments
    /\ idCounter' = d.idCounter

\* nextId(), loader.ts:101-103
nextId(d) == d.idCounter + 1

\* findPostById, loader.ts:257-259: the post found, if any
findPostById(d, id) == {p \in d.posts : p.id = id}

\* findCommentById, loader.ts:330-332
findCommentById(d, id) == {c \in d.comments : c.id = id}

\* createPost, loader.ts:290-305
createPost(d, authorId) ==
    [d EXCEPT !.idCounter = nextId(d),
              !.posts = @ \cup {[id |-> nextId(d), authorId |-> authorId]}]

\* deletePost, loader.ts:315-321: the post's comments, then the post
deletePost(d, id) ==
    [d EXCEPT !.comments = {c \in @ : c.postId # id},
              !.posts = {p \in @ : p.id # id}]

\* createComment, loader.ts:352-363
createComment(d, authorId, postId) ==
    [d EXCEPT !.idCounter = nextId(d),
              !.comments = @ \cup {[id |-> nextId(d), postId |-> postId,
                                    authorId |-> authorId]}]

\* deleteComment, loader.ts:365-367
deleteComment(d, id) == [d EXCEPT !.comments = {c \in @ : c.id # id}]

\* what a service call did: the store it leaves and the error it threw
Done(d) == [db |-> d, error |-> ""]
Throw(d, msg) == [db |-> d, error |-> msg]

createWithoutLookup(d, authorId, input) ==
    IF input.content = "" \/ input.postId = 0
    THEN Throw(d, "Validation failed")
    ELSE Done(createComment(d, authorId, input.postId))

\* CommentService.create, comment.service.ts:22-34
CommentServiceCreate(d, authorId, input) ==
    IF input.content = "" \/ input.postId = 0
    THEN Throw(d, "Validation failed")
    ELSE IF findPostById(d, input.postId) = {}
         THEN Throw(d, "Post not found")
         ELSE Done(createComment(d, authorId, input.postId))

\* CommentService.delete, comment.service.ts:36-41
CommentServiceDelete(d, id, userId) ==
    IF findCommentById(d, id) = {}
    THEN Throw(d, "Comment not found")
    ELSE IF \E c \in findCommentById(d, id) : c.authorId # userId
         THEN Throw(d, "Not authorized to delete this comment")
         ELSE Done(deleteComment(d, id))

\* PostService.create, part_011:26-35
PostServiceCreate(d, authorId, valid) ==
    IF ~valid THEN Throw(d, "Validation failed")
    ELSE Done(createPost(d, authorId))

\* PostService.delete, part_011:49-54
PostServiceDelete(d, id, authorId) ==
    IF findPostById(d, id) = {}
    THEN Throw(d, "Post not found")
    ELSE IF \E p \in findPostById(d, id) : p.authorId # authorId
         THEN Throw(d, "Not authorized to delete this post")
         ELSE Done(deletePost(d, id))

NoDbCall == [op |-> "none", id |-> 0, error |-> "",
             before |-> [posts |-> {}, comments |-> {}, idCounter |-> 0]]

\* one service call on the singleton db
DbCall(op, id, r) ==
    /\ r.db.idCounter <= MaxIds
    /\ SetDb(r.db)
    /\ lastDb' = [op |-> op, id |-> id, error |-> r.error, before |-> Db]
    /\ UNCHANGED <<loaderVars, limiterVars, ctxVars, dirVars>>

CommentInputs == [content : {"", "Great article!"}, postId : 0..MaxIds]

CreateComment(authorId, input) ==
    DbCall("createComment", input.postId, CommentServiceCreate(Db, authorId, input))

DeleteComment(id, userId) ==
    DbCall("deleteComment", id, CommentServiceDelete(Db, id, userId))

CreatePost(authorId, valid) ==
    DbCall("createPost", 0, PostServiceCreate(Db, authorId, valid))

DeletePost(id, authorId) ==
    DbCall("deletePost", id, PostServiceDelete(Db, id, authorId))

\* new InMemoryDB(): seed(), loader.ts:97-183 (ids 1..3 are the users, whose
\* operations touch neither posts nor comments)
StoreStart ==
    /\ posts = {[id |-> 4, authorId |-> 1], [id |-> 5, authorId |-> 2]}
    /\ comments = {[id |-> 6, postId |-> 4, authorId |-> 2]}
    /\ idCounter = 6
    /\ lastDb = NoDbCall

StoreNext ==
    \/ \E a \in AuthorIds, input \in CommentInputs : CreateComment(a, input)
    \/ \E id \in 1..MaxIds, a \in AuthorIds : DeleteComment(id, a)
    \/ \E a \in AuthorIds, valid \in BOOLEAN : CreatePost(a, valid)
    \/ \E id \in 1..MaxIds, a \in AuthorIds : DeletePost(id, a)

\* -------------------------------------------------------------- the server
MaxContexts == 2
MaxCtxLoads == 2

LoaderNames == {"userLoader", "postLoader", "commentsByPostLoader"}

\* the keys resolvers load in this model: a string and an object
CtxKeys == {"u1", "objA"}

\* createDataLoader(batchFn), loader.ts:11-16: the closure state of a new
\* loader (with the callbacks it has queued and the calls it has made)
createDataLoader ==
    [cache |-> [ck \in CacheKeys |-> 0], batch |-> <<>>, scheduled |-> FALSE,
     queued |-> 0, promises |-> <<>>, born |-> <<>>, loads |-> <<>>,
     cleared |-> [ck \in CacheKeys |-> -1], calls |-> <<>>]

createDataLoadersOnce(insts) ==
    IF Len(insts) >= 3
    THEN [instances |-> insts,
          loaders |-> [userLoader |-> 1, postLoader |-> 2,
                       commentsByPostLoader |-> 3]]
    ELSE [instances |-> insts \o <<createDataLoader, createDataLoader, createDataLoader>>,
          loaders |-> [userLoader |-> Len(insts) + 1, postLoader |-> Len(insts) + 2,
                       commentsByPostLoader |-> Len(insts) + 3]]

\* createDataLoaders(config), part_016:16-35: three new loaders
createDataLoaders(insts) ==
    [instances |-> insts \o <<createDataLoader, createDataLoader, createDataLoader>>,
     loaders |-> [userLoader |-> Len(insts) + 1, postLoader |-> Len(insts) + 2,
                  commentsByPostLoader |-> Len(insts) + 3]]

\* the batch functions of part_016:22-33 for keys that are no id of the
\* store: findByIds gives null for each, getByPostIds an empty list
batchFn(name, keys) ==
    [i \in 1..Len(keys) |->
        IF name = "commentsByPostLoader" THEN Val("[]") ELSE Null]

\* the context function of the WebSocket server, part_011:107-115
WsContext ==
    LET r == createDataLoaders(instances)
    IN  /\ Len(contexts) < MaxContexts
        /\ instances' = r.instances
        /\ contexts' = Append(contexts, [ip |-> "ws", loaders |-> r.loaders])
        /\ UNCHANGED <<loaderVars, limiterVars, storeVars, dirVars>>

\* the context function of the HTTP middleware, part_011:156-191
HttpContext(ip) ==
    LET r == createDataLoaders(instances)
    IN  /\ CheckCall(ip)
        /\ IF check(entries[ip], now).allowed
           THEN /\ Len(contexts) < MaxContexts
                /\ instances' = r.instances
                /\ contexts' = Append(contexts, [ip |-> ip, loaders |-> r.loaders])
           ELSE \* throw new Error('Rate limit exceeded. Please try again later.')
                UNCHANGED <<instances, contexts>>
        /\ UNCHANGED <<loaderVars, storeVars, dirVars>>

\* the loader a resolver reaches as context.loaders[name]
LoaderOf(c, name) == contexts[c].loaders[name]

\* an operation on one loader: L is the closure state it leaves
OnLoader(c, name, L) ==
    /\ instances' = [instances EXCEPT ![LoaderOf(c, name)] =
                         [L EXCEPT !.loads = <<>>,
                                   !.cleared = [ck \in CacheKeys |-> -1]]]
    /\ UNCHANGED <<contexts, loaderVars, limiterVars, storeVars, dirVars>>

CtxLoads ==
    LET RECURSIVE sum(_)
        sum(i) == IF i = 0 THEN 0 ELSE Len(instances[i].promises) + sum(i - 1)
    IN  sum(Len(instances))

\* context.loaders[name].load(key)
LoadOn(c, name, key) ==
    LET L == instances[LoaderOf(c, name)]
    IN  /\ isCached(L.promises, L.cache[JSONstringify(key)]) \/ CtxLoads < MaxCtxLoads
        /\ OnLoader(c, name, LoadStep(L, key))

\* context.loaders[name].clear(key), loader.ts:70-72
ClearOn(c, name, key) ==
    LET L == instances[LoaderOf(c, name)]
        ck == JSONstringify(key)
    IN  OnLoader(c, name,
                 [L EXCEPT !.cache = cacheDelete(@, ck)])

\* context.loaders[name].clearAll(), loader.ts:74-76
ClearAllOn(c, name) ==
    LET L == instances[LoaderOf(c, name)]
    IN  OnLoader(c, name,
                 [L EXCEPT !.cache = [ck \in CacheKeys |-> 0]])

\* the dispatch callback of one loader up to its await, loader.ts:21-28
DispatchOn(c, name) ==
    LET L == instances[LoaderOf(c, name)]
    IN  /\ L.queued > 0
        /\ OnLoader(c, name,
                    [L EXCEPT !.queued = @ - 1, !.scheduled = FALSE, !.batch = <<>>,
                              !.calls = Append(@,
                                  [keys |-> [i \in 1..Len(L.batch) |-> L.batch[i].key],
                                   items |-> [i \in 1..Len(L.batch) |-> L.batch[i].h],
                                   state |-> "inflight"])])

\* the dispatch callback after its await, loader.ts:28-36
CompleteOn(c, name, d) ==
    LET L == instances[LoaderOf(c, name)]
        items == L.calls[d].items
        results == batchFn(name, L.calls[d].keys)
        pos(h) == CHOOSE i \in 1..Len(items) : items[i] = h
    IN  /\ L.calls[d].state = "inflight"
        /\ OnLoader(c, name,
                    [L EXCEPT !.calls[d].state = "done",
                              !.promises = [h \in 1..Len(L.promises) |->
                                  IF \E i \in 1..Len(items) : items[i] = h
                                  THEN Settle(L.promises[h], settleAt(results, pos(h)))
                                  ELSE L.promises[h]]])

\* startServer before the first request
ContextStart ==
    /\ instances = <<>>
    /\ contexts = <<>>

ContextNext ==
    \/ WsContext
    \/ \E ip \in Identities : HttpContext(ip)
    \/ \E c \in DOMAIN contexts, name \in LoaderNames :
          \/ \E key \in CtxKeys : LoadOn(c, name, key)
          \/ \E key \in CtxKeys : ClearOn(c, name, key)
          \/ ClearAllOn(c, name)
          \/ DispatchOn(c, name)
          \/ \E d \in DOMAIN instances[LoaderOf(c, name)].calls : CompleteOn(c, name, d)

\* ------------------------------------------- @rateLimit directive example
MaxLimit == 2
MaxDirWindow == 2
MaxDirTime == 3
MsPerSecond == 1000

\* `${info.parentType.name}.${info.fieldName}:${userId}`, part_007:120-121
DirKeys == {"Query.search:id_1", "Query.search:ip1"}

\* @rateLimit(limit, window), part_007:115
DirArgs == [limit : 1..MaxLimit, window : 1..MaxDirWindow]

NoDirCall == [op |-> "none", key |-> "", denied |-> FALSE, at |-> 0,
              before |-> [k \in DirKeys |-> NoEntry]]

\* the limit check of the wrapped resolver, part_007:123-142, on the entry
\* found for the key: the entry it leaves and whether it throws
\* RATE_LIMIT_EXCEEDED
rateLimitDirective(existing, t) ==
    IF ~existing.present \/ existing.resetAt < t
    THEN [entry |-> Entry(1, t + directive.window * MsPerSecond),
          denied |-> FALSE]
    ELSE [entry |-> Entry(existing.count + 1, existing.resetAt),
          denied |-> existing.count + 1 > directive.limit]

\* one call of a field that carries the directive, part_007:118-145
DirResolve(key) ==
    LET r == rateLimitDirective(rateLimitStore[key], now)
    IN  /\ r.entry.count <= directive.limit + MaxOver
        /\ rateLimitStore' = [rateLimitStore EXCEPT ![key] = r.entry]
        /\ lastDir' = [op |-> "call", key |-> key, denied |-> r.denied,
                       at |-> now, before |-> rateLimitStore]
        /\ UNCHANGED <<directive, loaderVars, limiterVars, storeVars, ctxVars>>

\* Date.now() advances by a second
TickSecond ==
    /\ now < MaxDirTime * MsPerSecond
    /\ now' = now + MsPerSecond
    /\ UNCHANGED <<entries, config, last, winCalls, unswept, loaderVars, appVars>>

\* the module when loaded: an empty store, part_007:106
DirectiveStart(args) ==
    /\ rateLimitStore = [k \in DirKeys |-> NoEntry]
    /\ directive = args
    /\ lastDir = NoDirCall

DirectiveNext ==
    \/ \E key \in DirKeys : DirResolve(key)
    \/ TickSecond

\* --------------------------------------------------------- specifications
Configs == [windowMs : 0..MaxWindow, maxRequests : 0..MaxRequests]

LimiterInit ==
    /\ \E cfg \in Configs : LimiterStart(cfg)
    /\ LoaderStart
    /\ StoreStart
    /\ ContextStart
    /\ DirectiveStart([limit |-> 1, window |-> 1])

LimiterNext ==
    \/ \E id \in Identities : Check(id)
    \/ \E id \in Identities : Remaining(id)
    \/ Cleanup
    \/ Tick

LimiterSpec == LimiterInit /\ [][LimiterNext]_vars

\* one loader instance; the limiter is left as constructed
LoaderInit ==
    /\ LoaderStart
    /\ LimiterStart([windowMs |-> 1, maxRequests |-> 1])
    /\ StoreStart
    /\ ContextStart
    /\ DirectiveStart([limit |-> 1, window |-> 1])

LoaderSpec == LoaderInit /\ [][LoaderNext]_vars

\* the batchFn call d settles: its promise resolves or rejects
CompleteSome(d) ==
    /\ d <= Len(calls)
    /\ \E comp \in Completions(Len(calls[d].keys)) : Complete(d, comp)

\* The loader where the microtask queue runs every queued callback
\* (queueMicrotask, loader.ts:21) and every batchFn call settles.
LoaderFairSpec ==
    /\ LoaderInit
    /\ [][LoaderNext]_vars
    /\ WF_vars(DispatchStart)
    /\ \A d \in 1..MaxDispatch : WF_vars(CompleteSome(d))

\* the singleton store under the services' calls
StoreInit ==
    /\ StoreStart
    /\ LoaderStart
    /\ LimiterStart([windowMs |-> 1, maxRequests |-> 1])
    /\ ContextStart
    /\ DirectiveStart([limit |-> 1, window |-> 1])

StoreSpec == StoreInit /\ [][StoreNext]_vars

\* the server's contexts and the loaders reached through them
ContextInit ==
    /\ ContextStart
    /\ LoaderStart
    /\ LimiterStart([windowMs |-> 1, maxRequests |-> 1])
    /\ StoreStart
    /\ DirectiveStart([limit |-> 1, window |-> 1])

ContextSpec == ContextInit /\ [][ContextNext]_vars

\* fields that carry @rateLimit under calls from two keys
DirectiveInit ==
    /\ \E args \in DirArgs : DirectiveStart(args)
    /\ LoaderStart
    /\ LimiterStart([windowMs |-> 1, maxRequests |-> 1])
    /\ StoreStart
    /\ ContextStart

DirectiveSpec == DirectiveInit /\ [][DirectiveNext]_vars

\* ------------------------------------------------------- loader: properties
Handles == 1..Len(promises)
Calls == 1..Len(calls)

\* where request h sits: positions of the pending batch, positions of call d
InBatch(h) == {i \in 1..Len(batch) : batch[i].h = h}
InCall(d, h) == {i \in 1..Len(calls[d].items) : calls[d].items[i] = h}
SentIn(h) == {d \in Calls : InCall(d, h) # {}}

\* what the completion of call d says about the request at its position i
Dictated(d, i, h) ==
    LET c == calls[d].completion
    IN  IF c.ok
        THEN IF i <= Len(c.results)
             THEN IF c.results[i].kind = "error"
                  THEN [state |-> "rejected", outcome |-> c.results[i]]
                  ELSE [state |-> "fulfilled", outcome |-> c.results[i]]
             ELSE [state |-> "fulfilled", outcome |-> Undefined]
        ELSE IF c.thrown.kind = "error"
             THEN [state |-> "rejected", outcome |-> c.thrown]
             ELSE [state |-> "rejected",
                   outcome |-> [kind |-> "error", v |-> StringOf(c.thrown), oid |-> h]]

\* C1: the load calls of one scheduling tick (those made while the same
\* number of dispatch callbacks has run) are served by one batchFn call:
\* while they wait, exactly one dispatch callback is queued; once it has
\* run, every request of the tick is in the key list of that one call, at
\* one position, under its own key, and in no other call.
C1_OneCallPerTick ==
    /\ batch # <<>> => queued = 1
    /\ \A h \in Handles :
          IF born[h].tick = Len(calls)
          THEN Cardinality(InBatch(h)) = 1 /\ SentIn(h) = {}
          ELSE /\ InBatch(h) = {}
               /\ SentIn(h) = {born[h].tick + 1}
               /\ Cardinality(InCall(born[h].tick + 1, h)) = 1
               /\ \A i \in InCall(born[h].tick + 1, h) :
                     calls[born[h].tick + 1].keys[i] = born[h].key

\* a call that served a tick of two loads for different, uncached keys
C1_Witness ==
    \E d \in Calls :
        /\ Len(calls[d].keys) = 2
        /\ JSONstringify(calls[d].keys[1]) # JSONstringify(calls[d].keys[2])
        /\ nclears = 0

\* positions of a key list that hold cache key ck for requests of epoch e
SameKeyAt(keys, items, ck, e) ==
    {i \in 1..Len(keys) : JSONstringify(keys[i]) = ck /\ born[items[i]].epoch = e}

BatchKeys == [i \in 1..Len(batch) |-> batch[i].key]
BatchItems == [i \in 1..Len(batch) |-> batch[i].h]

\* C2 (as amended): load calls for the same key made before a dispatch, with
\* no clear of that key and no clearAll between them, all return the same
\* handle, and that key is sent to batchFn once for them: no key list holds
\* two requests for the same cache key made between the same clears.
C2_SameKeySameHandle ==
    /\ \A i \in DOMAIN loads :
          (loads[i].prev # 0 /\ ~loads[i].cleared)
              => (loads[i].h = loads[i].prev /\ ~loads[i].fresh)
    /\ \A ck \in CacheKeys, e \in 0..MaxClears :
          /\ Cardinality(SameKeyAt(BatchKeys, BatchItems, ck, e)) <= 1
          /\ \A d \in Calls :
                Cardinality(SameKeyAt(calls[d].keys, calls[d].items, ck, e)) <= 1
    /\ \A h \in Handles :
          Cardinality(InBatch(h)) + Cardinality(SentIn(h)) = 1

\* a second load of a key whose request is waiting in the batch
C2_Witness ==
    \E i \in DOMAIN loads :
        /\ loads[i].prev # 0
        /\ ~loads[i].cleared
        /\ loads[i].h = loads[i].prev
        /\ loads[i].key # born[loads[i].h].key

\* C2 as stated: load calls for the same key made before a dispatch all
\* return the same handle, and no key list holds that key twice.
C2_AsStated ==
    /\ \A i \in DOMAIN loads :
          loads[i].prev # 0 => loads[i].h = loads[i].prev
    /\ \A ck \in CacheKeys, d \in Calls :
          Cardinality({i \in 1..Len(calls[d].keys) :
                          JSONstringify(calls[d].keys[i]) = ck}) <= 1

\* C3: after a batchFn call that succeeded, the request at position i is
\* rejected with results[i] if that is an Error and is otherwise fulfilled
\* with results[i] (null included; undefined beyond the end of the array),
\* whatever the other positions hold.
C3_PerPositionSettlement ==
    \A d \in Calls :
        (calls[d].state = "done" /\ calls[d].completion.ok) =>
            \A i \in 1..Len(calls[d].items) :
                LET r == calls[d].completion.results
                    p == promises[calls[d].items[i]]
                IN  IF i <= Len(r) /\ r[i].kind = "error"
                    THEN p.state = "rejected" /\ p.outcome = r[i]
                    ELSE /\ p.state = "fulfilled"
                         /\ p.outcome = (IF i <= Len(r) THEN r[i] ELSE Undefined)

\* a call that returned an Error beside a null
C3_Witness ==
    \E d \in Calls :
        /\ calls[d].state = "done"
        /\ calls[d].completion.ok
        /\ calls[d].completion.results = <<Err("x"), Null>>
        /\ Len(calls[d].items) = 2
        /\ promises[calls[d].items[1]].state = "rejected"
        /\ promises[calls[d].items[2]] = Fulfilled(Null)

\* C4 (as amended): after a batchFn call that threw or rejected, every
\* request of that dispatch is rejected: with the thrown value itself when
\* it is an Error, and otherwise with a new Error, made for that request,
\* whose message is the value's string form. A request is rejected only
\* by its own dispatch: requests still in the batch or in a call that has
\* not completed stay pending.
C4_BatchFailure ==
    /\ \A d \in Calls :
          (calls[d].state = "done" /\ ~calls[d].completion.ok) =>
              \A i \in 1..Len(calls[d].items) :
                  LET t == calls[d].completion.thrown
                      p == promises[calls[d].items[i]]
                  IN  /\ p.state = "rejected"
                      /\ p.outcome = IF t.kind = "error" THEN t
                                     ELSE [kind |-> "error", v |-> StringOf(t),
                                           oid |-> calls[d].items[i]]
    /\ \A h \in Handles :
          promises[h].state = "rejected" =>
              \E d \in SentIn(h) :
                  /\ calls[d].state = "done"
                  /\ \E i \in InCall(d, h) : promises[h] = Dictated(d, i, h)

\* a failed call beside a request of another dispatch that is still pending
C4_Witness ==
    \E d \in Calls :
        /\ calls[d].state = "done"
        /\ ~calls[d].completion.ok
        /\ calls[d].completion.thrown = Str("timeout")
        /\ Len(calls[d].items) >= 1
        /\ \E h \in Handles : SentIn(h) # {d} /\ promises[h].state = "pending"

\* C4 as stated: every request of a failed dispatch is rejected with the
\* very value batchFn threw.
C4_AsStated ==
    \A d \in Calls :
        (calls[d].state = "done" /\ ~calls[d].completion.ok) =>
            \A i \in 1..Len(calls[d].items) :
                /\ promises[calls[d].items[i]].state = "rejected"
                /\ promises[calls[d].items[i]].outcome = calls[d].completion.thrown

\* C5: dispatch and settlement leave the cache as it is, and a load of a
\* key that has a cache entry (settled with a value, failed, or still
\* pending) returns that entry, adds no request to the batch, queues no
\* dispatch and calls batchFn not at all: a failed key is not retried.
C5_CachedStaysCached ==
    [][/\ calls' # calls => cache' = cache
       /\ \A i \in DOMAIN loads' :
             loads'[i].hit # 0 =>
                 /\ loads'[i].h = loads'[i].hit
                 /\ ~loads'[i].fresh
                 /\ loads'[i].seen = promises'[loads'[i].hit].state
       /\ (loads' # <<>> /\ \A i \in DOMAIN loads' : loads'[i].hit # 0) =>
             /\ batch' = batch
             /\ queued' = queued
             /\ scheduled' = scheduled
             /\ calls' = calls
             /\ promises' = promises
             /\ cache' = cache]_vars

\* a load that found the failed handle of its key and returned it
C5_Witness ==
    \E i \in DOMAIN loads :
        /\ loads[i].hit # 0
        /\ loads[i].seen = "rejected"
        /\ loads[i].h = loads[i].hit
        /\ promises[loads[i].h].state = "rejected"

\* C6: the first load of a key after a clear of it (clear(k) or clearAll)
\* returns a new handle, not the one the clear removed; its request waits
\* in the batch with a dispatch queued, or is in a batchFn call made after
\* the load, and that call is what settles the handle.
C6_LoadAfterClear ==
    /\ \A i \in DOMAIN loads :
          loads[i].after >= 0 =>
              /\ loads[i].fresh
              /\ loads[i].h # loads[i].after
              /\ born[loads[i].h].old = loads[i].after
    /\ \A h \in Handles :
          born[h].old >= 0 =>
              /\ h # born[h].old
              /\ \/ /\ InBatch(h) # {}
                    /\ queued >= 1
                    /\ promises[h].state = "pending"
                 \/ \E d \in SentIn(h) :
                       /\ d > born[h].tick
                       /\ InBatch(h) = {}
                       /\ IF calls[d].state = "done"
                          THEN \E i \in InCall(d, h) : promises[h] = Dictated(d, i, h)
                          ELSE promises[h].state = "pending"

\* a key that had a value cached, was cleared, loaded again and settled again
C6_Witness ==
    \E h \in Handles :
        /\ born[h].old > 0
        /\ promises[born[h].old].state = "fulfilled"
        /\ promises[h].state # "pending"
        /\ \E d \in SentIn(h) : d > 1

C8_OwnCallOwnPosition ==
    \A h \in Handles :
        /\ Cardinality(SentIn(h)) <= 1
        /\ \A d \in SentIn(h) :
              /\ Cardinality(InCall(d, h)) = 1
              /\ \A i \in InCall(d, h) :
                    IF calls[d].state = "done"
                    THEN promises[h] = Dictated(d, i, h)
                    ELSE promises[h] = Pending
        /\ SentIn(h) = {} => promises[h] = Pending

\* the second call completed while the first is still in flight
C8_Witness ==
    /\ Len(calls) = 2
    /\ calls[1].state = "inflight"
    /\ calls[2].state = "done"
    /\ Len(calls[1].items) >= 1
    /\ \E i \in 1..Len(calls[2].items) : promises[calls[2].items[i]].state = "fulfilled"

\* ------------------------------------------------------ limiter: properties
\* C9: with maxRequests = N >= 1, among the check calls for one identity
\* made from the call that opened its window until that window ends
\* (now <= resetAt of the opening call), calls 1..N return true and every
\* later one returns false, whatever is called for other identities.
C9_QuotaPerWindow ==
    (config.maxRequests >= 1 /\ last.op = "check") =>
        last.allowed = (last.ordinal <= config.maxRequests)

\* a denied call, the first over the quota, with another identity active
C9_Witness ==
    /\ config.maxRequests = 2
    /\ last.op = "check"
    /\ ~last.allowed
    /\ last.ordinal = 3
    /\ \E id \in Identities \ {last.id} :
          winCalls[id].calls = 1 /\ entries[id].present

\* C10: a check call that returns false changes nothing: the count and
\* resetAt of its identity and the windows of all other identities are
\* what they were before the call.
C10_DeniedChangesNothing ==
    (last.op = "check" /\ ~last.allowed) => entries = last.before

\* a denied call on a full window, beside another identity's window
C10_Witness ==
    /\ last.op = "check"
    /\ ~last.allowed
    /\ config.maxRequests >= 1
    /\ entries[last.id].count = config.maxRequests
    /\ last.at <= entries[last.id].resetAt
    /\ \E id \in Identities \ {last.id} : entries[id].present

Max0(x) == IF x > 0 THEN x ELSE 0

Expired(e, t) == e.present /\ t > e.resetAt

Active(e, t) == e.present /\ t <= e.resetAt

\* C11: rate-limit state is independent per identity. A check(a) leaves
\* the count and resetAt of every other identity as they were, and what
\* check(b) or remaining(b) returns is fixed by b's own history (the time
\* its window was opened and the number of check(b) calls made in it),
\* whatever was called for other identities.
C11_PerIdentity ==
    /\ last.op = "check" =>
          /\ \A id \in Identities \ {last.id} : entries[id] = last.before[id]
          /\ last.allowed =
                IF InWindow(last.wbefore, last.at)
                THEN last.wbefore.calls < config.maxRequests
                ELSE TRUE
    /\ last.op = "remaining" =>
          last.value =
             IF InWindow(last.wbefore, last.at)
             THEN Max0(config.maxRequests - last.wbefore.calls)
             ELSE config.maxRequests

\* a check admitted for one identity while the other's window is exhausted
C11_Witness ==
    /\ last.op = "check"
    /\ last.allowed
    /\ config.maxRequests = 2
    /\ \E id \in Identities \ {last.id} :
          /\ Active(entries[id], now)
          /\ entries[id].count = config.maxRequests
          /\ winCalls[id].calls > config.maxRequests

\* C12: the first check(identity) after the identity's window has expired
\* (now > resetAt) returns true and starts a window with count 1 and
\* resetAt = now + windowMs, so that remaining(identity) is
\* maxRequests - 1, whether or not the old window was exhausted and
\* whether or not cleanup removed it.
C12_NewWindowAfterExpiry ==
    (/\ last.op = "check"
     /\ last.wbefore.open
     /\ last.at > last.wbefore.end) =>
        /\ last.allowed
        /\ entries[last.id] = Entry(1, last.at + config.windowMs)
        /\ remaining(entries[last.id], last.at) = config.maxRequests - 1

\* C13: remaining(identity) returns maxRequests when the identity has no
\* window or its window has expired, and maxRequests - count otherwise.
C13_RemainingValue ==
    last.op = "remaining" =>
        last.value =
           IF ~last.before[last.id].present
                 \/ last.at > last.before[last.id].resetAt
           THEN config.maxRequests
           ELSE config.maxRequests - last.before[last.id].count

\* C14: remaining(identity) is a pure read: the entries map after the call
\* is the map before it, also for an unknown identity and for an expired
\* window.
C14_RemainingIsPure ==
    last.op = "remaining" => entries = last.before

\* remaining was called on a window that has expired and is still stored
C14_Witness ==
    /\ last.op = "remaining"
    /\ Expired(last.before[last.id], last.at)
    /\ entries[last.id].present
    /\ \E id \in Identities \ {last.id} : ~entries[id].present

\* C15: cleanup removes exactly the identities whose window has expired
\* (now > resetAt); every window that has not expired stays in the map
\* with its count and resetAt.
C15_CleanupExactlyExpired ==
    last.op = "cleanup" =>
        \A id \in Identities :
            /\ Expired(last.before[id], last.at) => ~entries[id].present
            /\ ~Expired(last.before[id], last.at) => entries[id] = last.before[id]

\* a cleanup that removed one window and kept one that ends right now
C15_Witness ==
    /\ last.op = "cleanup"
    /\ \E a, b \in Identities :
          /\ Expired(last.before[a], last.at)
          /\ ~entries[a].present
          /\ last.before[b].present
          /\ last.before[b].resetAt = last.at
          /\ entries[b] = last.before[b]

\* C16: for every identity with a stored window that has not expired, the
\* count is at most maxRequests, whatever the configuration.
C16_CountWithinMax ==
    \A id \in Identities :
        Active(entries[id], now) => entries[id].count <= config.maxRequests

\* ------------------------------------------------- loader: key lists, flag
\* C19 (as amended): in every key list given to batchFn, and in the
\* pending batch, two requests with the same normalized key were queued
\* with a clear of that key or a clearAll between them: the later one
\* belongs to a later clear epoch of the key. With no clear between the
\* loads, a normalized key occurs once.
C19_UniqueKeysBetweenClears ==
    /\ \A d \in Calls : \A i, j \in 1..Len(calls[d].keys) :
          (i < j /\ JSONstringify(calls[d].keys[i]) = JSONstringify(calls[d].keys[j]))
              => born[calls[d].items[i]].epoch < born[calls[d].items[j]].epoch
    /\ \A i, j \in 1..Len(batch) :
          (i < j /\ JSONstringify(batch[i].key) = JSONstringify(batch[j].key))
              => born[batch[i].h].epoch < born[batch[j].h].epoch

\* a call that got two requests for one normalized key, made with two
\* different key objects around a clear
C19_Witness ==
    \E d \in Calls :
        /\ Len(calls[d].keys) = 2
        /\ JSONstringify(calls[d].keys[1]) = JSONstringify(calls[d].keys[2])
        /\ calls[d].keys[1] # calls[d].keys[2]
        /\ born[calls[d].items[1]].epoch = 0
        /\ born[calls[d].items[2]].epoch = 1

\* C19 as stated: no key list given to batchFn holds two keys with the
\* same normalized form, whatever load, loadMany, clear and clearAll calls
\* were made.
C19_AsStated ==
    \A d \in Calls : \A i, j \in 1..Len(calls[d].keys) :
        i # j => JSONstringify(calls[d].keys[i]) # JSONstringify(calls[d].keys[j])

\* C20: between loader operations at most one dispatch callback is queued,
\* the scheduled flag is true exactly when it is queued, and that is
\* exactly when the batch is non-empty; batchFn is never called with an
\* empty key list.
C20_ScheduleIdempotent ==
    /\ queued <= 1
    /\ scheduled <=> (queued = 1)
    /\ (queued = 1) <=> (batch # <<>>)
    /\ \A d \in Calls : calls[d].keys # <<>>

\* schedule() ran twice in one tick: two requests wait for one callback
C20_Witness ==
    /\ scheduled
    /\ queued = 1
    /\ Len(batch) = 2

\* ------------------------------------------------------ server: properties
\* what a request sees through context.loaders[name]
View(c, name) == instances[LoaderOf(c, name)]

Views == {<<c, name>> : c \in DOMAIN contexts, name \in LoaderNames}

\* no two loaders reachable through the contexts are the same instance
C17_Distinct ==
    \A v, w \in Views : v # w => LoaderOf(v[1], v[2]) # LoaderOf(w[1], w[2])

\* a new context gets three loaders that did not exist before, each in the
\* state of a new loader
C17_Fresh ==
    Len(contexts') > Len(contexts) =>
        \A name \in LoaderNames :
            /\ contexts'[Len(contexts')].loaders[name] \notin DOMAIN instances
            /\ instances'[contexts'[Len(contexts')].loaders[name]] = createDataLoader

\* a step changes the state of at most one loader that already existed:
\* the cache, pending batch, flag, key lists and handles seen through
\* every other loader of every context stay as they were
C17_Frame ==
    \E v \in Views \cup {<<0, "">>} :
        \A w \in Views \ {v} : instances'[LoaderOf(w[1], w[2])] = View(w[1], w[2])

\* C17: every HTTP or WebSocket context gets newly created loader
\* instances, no loader is reachable through two contexts or under two
\* names, and a load, clear, clearAll or dispatch on one loader leaves the
\* state of every other loader unchanged.
C17_LoadersPrivate ==
    /\ []C17_Distinct
    /\ [][C17_Fresh]_vars
    /\ [][C17_Frame]_vars

\* two requests loaded the same key through their own userLoader: the
\* first has its value, the second made its own batchFn call, in flight
C17_Witness ==
    /\ Len(contexts) = 2
    /\ contexts[1].ip # "ws"
    /\ contexts[2].ip = "ws"
    /\ View(1, "userLoader").promises = <<Fulfilled(Null)>>
    /\ View(1, "userLoader").cache[JSONstringify("u1")] = 1
    /\ View(2, "userLoader").promises = <<Pending>>
    /\ Len(View(2, "userLoader").calls) = 1
    /\ View(2, "userLoader").calls[1].keys = <<"u1">>

C23_SameExpiryTest ==
    /\ last.op = "check" =>
          LET e == last.before[last.id]
          IN  /\ Expired(e, last.at) =>
                    /\ last.allowed
                    /\ entries[last.id] = Entry(1, last.at + config.windowMs)
              /\ Active(e, last.at) =>
                    /\ last.allowed = (e.count < config.maxRequests)
                    /\ entries[last.id] =
                          Entry(IF last.allowed THEN e.count + 1 ELSE e.count,
                                e.resetAt)
    /\ last.op = "remaining" =>
          LET e == last.before[last.id]
          IN  /\ Expired(e, last.at) => last.value = config.maxRequests
              /\ Active(e, last.at) =>
                    last.value = Max0(config.maxRequests - e.count)
    /\ last.op = "cleanup" =>
          \A id \in Identities :
              /\ Expired(last.before[id], last.at) => ~entries[id].present
              /\ Active(last.before[id], last.at) => entries[id].present

\* remaining was called at now = resetAt on an exhausted window of a quota
\* of two and reported it as active
C23_Witness ==
    /\ last.op = "remaining"
    /\ config.maxRequests = 2
    /\ last.before[last.id].present
    /\ last.before[last.id].resetAt = last.at
    /\ last.before[last.id].count = 2
    /\ last.value = 0

\* C25: resetAt is written only when check starts a new window, and is
\* then now + windowMs; a check inside an active window, admitted or
\* denied, leaves resetAt as it was, and so do remaining and cleanup for
\* every window they keep.
C25_FixedWindow ==
    /\ last.op = "check" =>
          IF Active(last.before[last.id], last.at)
          THEN entries[last.id].resetAt = last.before[last.id].resetAt
          ELSE entries[last.id].resetAt = last.at + config.windowMs
    /\ last.op \in {"remaining", "cleanup"} =>
          \A id \in Identities :
              entries[id].present => entries[id].resetAt = last.before[id].resetAt

\* a check admitted later than the call that opened the window
C25_Witness ==
    /\ last.op = "check"
    /\ last.allowed
    /\ Active(last.before[last.id], last.at)
    /\ config.windowMs = 2
    /\ last.at = last.before[last.id].resetAt - 1
    /\ entries[last.id].count = 2

\* C30: with maxRequests >= 1, check(identity) returns true exactly when
\* remaining(identity) just before it, at the same instant, is greater
\* than 0; after a check that returns true inside an active window,
\* remaining(identity) is one less than before.
C30_CheckAgreesWithRemaining ==
    (config.maxRequests >= 1 /\ last.op = "check") =>
        LET e == last.before[last.id]
        IN  /\ last.allowed = (remaining(e, last.at) > 0)
            /\ (last.allowed /\ Active(e, last.at)) =>
                  remaining(entries[last.id], last.at) = remaining(e, last.at) - 1

\* the last admitted check of a window: remaining went from 1 to 0
C30_Witness ==
    /\ config.maxRequests = 2
    /\ last.op = "check"
    /\ last.allowed
    /\ Active(last.before[last.id], last.at)
    /\ remaining(last.before[last.id], last.at) = 1
    /\ remaining(entries[last.id], last.at) = 0

\* C24: cleanup is transparent. Every check and remaining call returns
\* what a limiter returns that got the same check calls at the same times
\* and no cleanup call, wherever cleanup calls are interleaved; the two
\* limiters differ only in expired windows that cleanup removed.
C24_CleanupTransparent ==
    /\ last.op = "check" => last.allowed = last.ref.allowed
    /\ last.op = "remaining" => last.value = last.ref.value
    /\ \A id \in Identities :
          \/ entries[id] = unswept[id]
          \/ ~entries[id].present /\ Expired(unswept[id], now)

\* a check on an exhausted window that expired and was swept: admitted, as
\* without the sweep
C24_Witness ==
    /\ last.op = "check"
    /\ last.allowed
    /\ ~last.before[last.id].present
    /\ last.wbefore.open
    /\ last.wbefore.calls > config.maxRequests
    /\ config.maxRequests >= 1
    /\ \E id \in Identities \ {last.id} :
          ~entries[id].present /\ unswept[id].present

\* ----------------------------------------- loader: dispatch and settlement
\* the places request h was handed to batchFn: call d, position i
Handed(h) == UNION {{<<d, i>> : i \in InCall(d, h)} : d \in Calls}

\* the resolve/reject calls made for request h: one per position of a
\* completed call that holds it (loader.ts:29-40)
SettleCalls(h) == {x \in Handed(h) : calls[x[1]].state = "done"}

C21_OnceInv ==
    \A h \in Handles :
        /\ Cardinality(InBatch(h)) + Cardinality(Handed(h)) = 1
        /\ Cardinality(SettleCalls(h)) =
              IF promises[h].state = "pending" THEN 0 ELSE 1
        /\ \A x \in SettleCalls(h) : promises[h] = Dictated(x[1], x[2], h)

C21_OnceStep ==
    /\ \A d \in DOMAIN calls :
          /\ d \in DOMAIN calls'
          /\ calls'[d].keys = calls[d].keys
          /\ calls'[d].items = calls[d].items
          /\ calls[d].state = "done" => calls'[d] = calls[d]
    /\ \A h \in DOMAIN promises :
          /\ h \in DOMAIN promises'
          /\ promises[h].state # "pending" => promises'[h] = promises[h]

\* C21: every request is handed to batchFn in exactly one call, at one
\* position (a key list, once made, never changes and is never sent
\* again), and exactly one resolve or reject is called for it, when that
\* call completes, on the success path, the per-key error path and the
\* whole-batch failure path alike; a settled handle never changes.
C21_SettledExactlyOnce ==
    /\ []C21_OnceInv
    /\ [][C21_OnceStep]_vars

\* one request failed with its whole batch, a later one by its own result
C21_Witness ==
    /\ Len(calls) = 2
    /\ calls[1].state = "done"
    /\ ~calls[1].completion.ok
    /\ calls[2].state = "done"
    /\ calls[2].completion.ok
    /\ \E h \in Handles :
          /\ SettleCalls(h) = {<<2, 1>>}
          /\ promises[h].state = "rejected"
    /\ \E h \in Handles : SettleCalls(h) = {<<1, 1>>}

\* positions of in-flight calls that hold a request for cache key ck
InFlightFor(ck) ==
    UNION {{<<d, j>> : j \in {n \in 1..Len(calls[d].keys) :
                                JSONstringify(calls[d].keys[n]) = ck}} :
           d \in {c \in Calls : calls[c].state = "inflight"}}

Fresh(ls) == {i \in DOMAIN ls : ls[i].fresh}

C22_LateInv ==
    /\ \A h \in Handles : \A d \in SentIn(h) : d > born[h].tick
    /\ \A i \in DOMAIN loads :
          \A x \in InFlightFor(JSONstringify(loads[i].key)) :
              LET item == calls[x[1]].items[x[2]]
              IN  born[item].epoch = epoch[JSONstringify(loads[i].key)] =>
                      loads[i].h = item /\ ~loads[i].fresh

C22_LateStep ==
    loads' # <<>> =>
        /\ calls' = calls
        /\ Len(batch') = Len(batch) + Cardinality(Fresh(loads'))
        /\ \A i \in 1..Len(batch) : batch'[i] = batch[i]

\* C22 (as amended): a load made while a batchFn call is in flight never
\* changes that call's key list: a request it creates goes to the pending
\* batch and is sent by a later call. A load for a key whose request is in
\* an in-flight call, with no clear of that key and no clearAll since that
\* request was made, returns the in-flight handle and adds nothing to the
\* batch.
C22_LateLoads ==
    /\ []C22_LateInv
    /\ [][C22_LateStep]_vars

\* during an in-flight call, a load of another key started a new batch
C22_Witness ==
    /\ Len(calls) = 1
    /\ calls[1].state = "inflight"
    /\ Len(loads) = 1
    /\ loads[1].fresh
    /\ InFlightFor(JSONstringify(loads[1].key)) = {}
    /\ Len(batch) = 1
    /\ batch[1].h = loads[1].h
    /\ queued = 1

\* C22 as stated: a load for a key whose request is in an in-flight call
\* returns that in-flight handle and enqueues nothing.
C22_AsStated ==
    \A i \in DOMAIN loads :
        \A x \in InFlightFor(JSONstringify(loads[i].key)) :
            loads[i].h = calls[x[1]].items[x[2]] /\ ~loads[i].fresh

\* --------------------------------------------- loader: clear, result length
\* the cache key of request h
KeyOf(h) == JSONstringify(born[h].key)

C28_ClearStep ==
    nclears' # nclears =>
        /\ batch' = batch
        /\ scheduled' = scheduled
        /\ queued' = queued
        /\ promises' = promises
        /\ calls' = calls
        /\ \A ck \in CacheKeys :
              cache'[ck] = IF epoch'[ck] = epoch[ck] THEN cache[ck] ELSE 0

C28_ClearedInv ==
    \A h \in Handles :
        born[h].epoch < epoch[KeyOf(h)] =>
            /\ Cardinality(InBatch(h)) + Cardinality(Handed(h)) = 1
            /\ InBatch(h) # {} => queued = 1
            /\ \A x \in Handed(h) :
                  promises[h] = IF calls[x[1]].state = "done"
                                THEN Dictated(x[1], x[2], h)
                                ELSE Pending

\* C28: clear(k) and clearAll() change only the cache: the batch, the
\* scheduled flag, the queued callback, the calls made and every handle
\* stay as they were, and clear(k) removes the entry of k and no other. A
\* request made before the clear is still sent to batchFn, once, and its
\* handle is settled by that call.
C28_ClearOnlyCache ==
    /\ [][C28_ClearStep]_vars
    /\ []C28_ClearedInv

\* clear(k) while the request for k waits in the batch beside another key's
C28_Witness ==
    \E h \in Handles :
        /\ cleared[KeyOf(h)] = h
        /\ cache[KeyOf(h)] = 0
        /\ InBatch(h) # {}
        /\ scheduled
        /\ \E ck \in CacheKeys \ {KeyOf(h)} : cache[ck] # 0 /\ epoch[ck] = 0

\* C29: when batchFn succeeds with a result list shorter or longer than
\* the key list, every request of the call is settled and none is rejected
\* for the mismatch: a position beyond the end of the results is fulfilled
\* with undefined, the others by their own result, and results beyond the
\* end of the key list settle nothing.
C29_LengthMismatch ==
    \A d \in Calls :
        LET c == calls[d].completion
            n == Len(calls[d].items)
        IN  (calls[d].state = "done" /\ c.ok /\ Len(c.results) # n) =>
                /\ \A i \in 1..n :
                      promises[calls[d].items[i]] =
                         IF i > Len(c.results) THEN Fulfilled(Undefined)
                         ELSE IF IsError(c.results[i]) THEN Rejected(c.results[i])
                         ELSE Fulfilled(c.results[i])
                /\ \A h \in Handles :
                      Handed(h) \cap ({d} \X (1..n)) = {} =>
                          \/ promises[h] = Pending
                          \/ \E x \in SettleCalls(h) :
                                promises[h] = Dictated(x[1], x[2], h)

\* a call on two keys got one result; a call on one key got two
C29_Witness ==
    /\ Len(calls) = 2
    /\ \E d, e \in Calls :
          /\ calls[d].state = "done" /\ calls[e].state = "done"
          /\ calls[d].completion.ok /\ calls[e].completion.ok
          /\ Len(calls[d].items) = 1
          /\ Len(calls[d].completion.results) = 0
          /\ promises[calls[d].items[1]] = Fulfilled(Undefined)
          /\ Len(calls[e].items) = 1
          /\ Len(calls[e].completion.results) = 2

\* ------------------------------------------------------- loader: liveness
\* C27: when every queued dispatch callback runs and every batchFn call
\* resolves or rejects, every handle load returned is eventually settled,
\* also when its key or the whole cache is cleared while it is pending.
C27_EventuallySettled ==
    \A h \in 1..MaxHandles :
        (h \in Handles) ~> (h \in Handles /\ promises[h].state # "pending")

\* a handle settled although its cache entry was cleared after it was made
C27_Witness ==
    \E h \in Handles :
        /\ promises[h].state # "pending"
        /\ born[h].epoch < epoch[KeyOf(h)]
        /\ cache[KeyOf(h)] # h

\* ---------------------------------------------------- directive: property
\* C26: in the @rateLimit directive's store a denied call (one that throws
\* RATE_LIMIT_EXCEEDED) does not increment the stored count, and the count
\* of an active window never exceeds the directive's limit.
C26_DirectiveDeniedNotCounted ==
    /\ (lastDir.op = "call" /\ lastDir.denied) => rateLimitStore = lastDir.before
    /\ \A k \in DirKeys :
          (rateLimitStore[k].present /\ ~(rateLimitStore[k].resetAt < now))
              => rateLimitStore[k].count <= directive.limit

====
